---- MODULE Spec2Model ----
(***************************************************************************)
(* The Airflow alert acknowledgment relay (app.py): HTTP handlers that set *)
(* or read one flag variable per DAG in the Airflow variable store.        *)
(* A handler makes one upstream call, or two: the update and then the      *)
(* create of set_airflow_variable.  A handler runs as one step up to its   *)
(* first upstream call and that call's answer, and as a second step for    *)
(* the create, so that concurrent requests interleave at the store exactly *)
(* where the code lets them: between its two calls.  The requests that are *)
(* between their two calls are a bag.  The step that makes a handler's     *)
(* last upstream call also computes its response, since nothing but local  *)
(* computation follows that call; the response is then delivered before    *)
(* anything else happens.                                                  *)
(* Strings that the code inspects (flag values) are sequences of           *)
(* characters; identifiers it only copies are atomic strings.              *)
(***************************************************************************)
EXTENDS Integers, Sequences, FiniteSets, Bags, TLC

\* ------------------------------------------------------------------ bounds
\* Number of requests the server handles at the same time.
MaxInFlight == 2

\* ------------------------------------------------------------- the inputs
\* Workflow identifiers a caller can name.
Dags == {"a", "b"}

\* The absence of a value (Python None: a missing JSON key / query parameter).
None == "<None>"

\* dag_id as it can arrive in an acknowledge request: missing, empty, or a name.
DagInputs == {None, ""} \cup Dags

\* task_id as it can arrive: missing or a name.
TaskInputs == {None, "t1"}

\* Flag values as character sequences.
TrueStr == <<"t", "r", "u", "e">>
FalseStr == <<"f", "a", "l", "s", "e">>

\* Values the upstream store can hold when the relay starts (the store is
\* owned by the orchestrator; anything may have been stored there).
InitValues == { FalseStr, <<"T", "r", "u", "E">>, <<"0">>, <<>> }

AbsentVar == [present |-> FALSE, value |-> <<>>]

PresentVar(v) == [present |-> TRUE, value |-> v]

\* ------------------------------------------------------- the flag's key
Prefix == "twilio_alert_enabled_"

\* The keys of the variable store that the model tracks.
Keys == {<<Prefix, d>> : d \in Dags}

\* The workflow a key names.
KeyDag(k) == k[2]

VarKeyShared(dag_id) == <<Prefix, "a">>

\* var_key = f"twilio_alert_enabled_{dag_id}"
VarKey(dag_id) == <<Prefix, dag_id>>

\* ---------------------------------------------------------- pure helpers
\* One character of str.lower(), on the alphabet of the modelled values.
LowerChar(c) ==
  CASE c = "T" -> "t"
    [] c = "R" -> "r"
    [] c = "U" -> "u"
    [] c = "E" -> "e"
    [] OTHER -> c

\* str.lower()
Lower(str) == [i \in DOMAIN str |-> LowerChar(str[i])]

\* req.get(key, default) / request.args.get(key, default) on an identifier
\* that may be missing.
DictGet(v, default) == IF v = None THEN default ELSE v

\* `not dag_id`
Falsy(dag_id) == dag_id = None \/ dag_id = ""

AckValueTrue == TrueStr

\* The value both acknowledge handlers store: "false".
AckValue == FalseStr

ResetValueFalse == FalseStr

\* The value the reset handler stores: "true".
ResetValue == TrueStr

NeedsCreateOnAnyError(status) == status >= 400

\* `if response.status_code == 404` in set_airflow_variable
NeedsCreate(status) == status = 404

RaiseForStatusNever(status) == FALSE

\* response.raise_for_status(): raises on a 4xx or 5xx status.
RaiseForStatus(status) == 400 <= status /\ status < 600

\* A JSON body of the variable store: the variable's value, when it has one.
VarData(value) == [has_value |-> TRUE, value |-> value]

NoVarData == [has_value |-> FALSE, value |-> <<>>]

\* var_data.get("value", default)
VarDataGet(var_data, default) ==
  IF var_data.has_value THEN var_data.value ELSE default

AlertsEnabledCaseSensitive(var_data) ==
  VarDataGet(var_data, TrueStr) = TrueStr

\* var_data.get("value", "true").lower() == "true"
AlertsEnabled(var_data) == Lower(VarDataGet(var_data, TrueStr)) = TrueStr

\* A response body of a handler. tag is the shape of the body: "success"
\* and "error" for the JSON bodies and the two branches of the HTML page.
Body(tag, alerts_enabled, acknowledged) ==
  [tag |-> tag, alerts_enabled |-> alerts_enabled, acknowledged |-> acknowledged]

NoBody == Body("none", FALSE, FALSE)

NotFoundBodyDisabled == Body("status", FALSE, TRUE)

\* The status handler's answer to a 404 of the read: enabled by default.
NotFoundBody == Body("status", TRUE, FALSE)

\* The status handler's answer to a flag that was read.
StatusBody(var_data) ==
  LET alerts_enabled == AlertsEnabled(var_data)
  IN  Body("status", alerts_enabled, ~alerts_enabled)

\* ------------------------------------------------------------- the state
VARIABLES
  store,      \* the upstream variable store: key -> [present, value]
  upstream,   \* how the upstream answers: "up", "failing" or "down"
  inflight,   \* the bag of requests between their update and their create
  resp,       \* the request that just completed, with its response
  fresh,      \* history: dag -> flag absent at start, no acknowledge made since
  lastWrite   \* history: key -> the request whose write the store applied last

vars == <<store, upstream, inflight, resp, fresh, lastWrite>>

NoKey == <<"", "">>

\* History of a flag: what the last write the store applied was ("ack" or
\* "reset"), whether it created the variable, what its request answered, and
\* whether it replaced the write of an acknowledge that answered 200.
NoWrite == [kind |-> "none", created |-> FALSE, http |-> 0, over_ack |-> FALSE]

\* A request as its handler received it.
Request(kind, dag_id, task_id) ==
  [ kind |-> kind, dag_id |-> dag_id, task_id |-> task_id,
    key |-> NoKey, value |-> <<>>, calls |-> <<>> ]

\* The handler of r returned: r with its response. applied and after are
\* history: whether the store applied a write of r, and the last applied
\* write to r's flag at the time r read it.
Done(r, http, body, applied, after) ==
  [ kind |-> r.kind, dag_id |-> r.dag_id, task_id |-> r.task_id, key |-> r.key,
    value |-> r.value, calls |-> r.calls, http |-> http, body |-> body,
    applied |-> applied, after |-> after ]

NoResp == Done(Request("none", None, None), 0, NoBody, FALSE, NoWrite)

One(r) == SetToBag({r})

\* ---------------------------------------------------------- the upstream
\* What the variable store does with a call it processes:
\* GET /variables/{key} and PATCH /variables/{key} answer 404 when the
\* variable is absent; POST /variables creates it. A create of a variable
\* that exists is answered either way the orchestrator's API versions do:
\* refused with 409, or stored.
Processed(method, key, value) ==
  LET put == [store EXCEPT ![key] = PresentVar(value)]
      ok(st, val, app) ==
        [status |-> 200, body |-> VarData(val), store |-> st, applied |-> app]
      no(status) ==
        [status |-> status, body |-> NoVarData, store |-> store, applied |-> FALSE]
  IN  CASE method = "PATCH" ->
             IF store[key].present THEN {ok(put, value, TRUE)} ELSE {no(404)}
        [] method = "POST" ->
             IF store[key].present
               THEN {ok(put, value, TRUE), no(409)}
               ELSE {ok(put, value, TRUE)}
        [] method = "GET" ->
             IF store[key].present
               THEN {ok(store, store[key].value, FALSE)}
               ELSE {no(404)}

\* The outcomes requests.patch / requests.post / requests.get can have:
\*   up:      the store's answer, with a JSON body;
\*   failing: an error status (401, 500) without processing, or the call is processed
\*            and its success is answered with a body that is not JSON;
\*   down:    the call raises (connection refused, or the connection is lost
\*            after the store processed the call).
UpstreamCall(method, key, value) ==
  LET answers == Processed(method, key, value)
      reply(p, json) ==
        [ raised |-> FALSE, status |-> p.status, json |-> json,
          body |-> IF json THEN p.body ELSE NoVarData,
          store |-> p.store, applied |-> p.applied ]
      refuse(status) ==
        [ raised |-> FALSE, status |-> status, json |-> TRUE,
          body |-> NoVarData, store |-> store, applied |-> FALSE ]
      raise(st, app) ==
        [ raised |-> TRUE, status |-> 0, json |-> FALSE,
          body |-> NoVarData, store |-> st, applied |-> app ]
  IN  CASE upstream = "up" -> {reply(p, TRUE) : p \in answers}
        [] upstream = "failing" ->
             {refuse(e) : e \in {401, 500}}
               \cup {reply(p, p.status # 200) : p \in answers}
        [] upstream = "down" ->
             {raise(store, FALSE)} \cup {raise(p.store, p.applied) : p \in answers}

\* The record of one upstream call a request made.
Call(method, key, value, o) ==
  [ method |-> method, key |-> key, value |-> value, raised |-> o.raised,
    status |-> o.status, json |-> o.json, body |-> o.body ]

\* ------------------------------------------------------------- requests
\* The JSON bodies POST /api/acknowledge can receive: an object with or
\* without the two identifiers, or something request.get_json() does not
\* turn into an object (no body, a body that is not JSON, JSON null).
PostBodies ==
  {[is_object |-> FALSE, dag_id |-> None, task_id |-> None]}
    \cup {[is_object |-> TRUE, dag_id |-> d, task_id |-> t] :
            d \in DagInputs, t \in TaskInputs}

\* The query strings GET /api/acknowledge can receive.
QueryArgs == {[dag_id |-> d, task_id |-> t] : d \in DagInputs, t \in TaskInputs}

\* The server takes a request: no response is waiting to leave, and fewer
\* than MaxInFlight handlers are running.
Accepting == resp = NoResp /\ BagCardinality(inflight) < MaxInFlight

ErrorBody == Body("error", FALSE, FALSE)

\* A handler answered without an upstream call.
Answered(r, http, body) ==
  /\ resp' = Done(r, http, body, FALSE, NoWrite)
  /\ UNCHANGED <<store, inflight, lastWrite>>

\* ------------------------------------------------- set_airflow_variable
\* After the call that decides it: raise_for_status(), then response.json().
SetSucceeds(o) == ~o.raised /\ ~RaiseForStatus(o.status) /\ o.json

WriteResponseAlwaysOK(r, ok, applied) ==
  Done(r, 200, Body("success", FALSE, FALSE), applied, NoWrite)

\* What a write handler answers when set_airflow_variable returned (ok) or
\* an exception reached its `except Exception`.
WriteResponse(r, ok, applied) ==
  IF ok THEN Done(r, 200, Body("success", FALSE, FALSE), applied, NoWrite)
        ELSE Done(r, 500, ErrorBody, applied, NoWrite)

\* History of the store: the write of the completed request d, if applied.
Applied(d, o) ==
  IF o.applied
    THEN [lastWrite EXCEPT ![d.key] =
            [ kind |-> IF d.kind = "reset_acknowledgment" THEN "reset" ELSE "ack",
              created |-> ~store[d.key].present, http |-> d.http,
              over_ack |-> @.kind = "ack" /\ @.http = 200 ]]
    ELSE lastWrite

\* The handler of r calls set_airflow_variable(var_key, value): the update,
\* requests.patch(...), and what follows it unless the update answered 404.
set_airflow_variable(r, dag_id, value) ==
  LET key == VarKey(dag_id)
  IN  \E o \in UpstreamCall("PATCH", key, value) :
        LET called == [r EXCEPT !.key = key, !.value = value,
                                !.calls = <<Call("PATCH", key, value, o)>>]
            done == WriteResponse(called, SetSucceeds(o), o.applied)
        IN  /\ store' = o.store
            /\ IF ~o.raised /\ NeedsCreate(o.status)
                 THEN /\ inflight' = inflight (+) One(called)
                      /\ UNCHANGED <<resp, lastWrite>>
                 ELSE /\ resp' = done
                      /\ lastWrite' = Applied(done, o)
                      /\ UNCHANGED inflight

\* set_airflow_variable, the fallback create: requests.post(...) with the
\* same key and value, and what follows it.
set_airflow_variable_create(r) ==
  /\ resp = NoResp
  /\ BagIn(r, inflight)
  /\ \E o \in UpstreamCall("POST", r.key, r.value) :
       LET called == [r EXCEPT !.calls = Append(@, Call("POST", r.key, r.value, o))]
           done == WriteResponse(called, SetSucceeds(o), o.applied)
       IN  /\ store' = o.store
           /\ inflight' = inflight (-) One(r)
           /\ resp' = done
           /\ lastWrite' = Applied(done, o)
  /\ UNCHANGED <<upstream, fresh>>

\* ------------------------------------------------------------- handlers
\* POST /api/acknowledge
acknowledge_post ==
  /\ Accepting
  /\ \E b \in PostBodies :
       LET dag_id == b.dag_id
           task_id == DictGet(b.task_id, "unknown")
           r == Request("acknowledge_post", dag_id, task_id)
       IN  IF ~b.is_object
             THEN \* get_json() raises, or req.get raises on None
                  Answered(r, 500, ErrorBody) /\ UNCHANGED fresh
             ELSE IF Falsy(dag_id)
               THEN Answered(r, 400, ErrorBody) /\ UNCHANGED fresh
               ELSE /\ set_airflow_variable(r, dag_id, AckValue)
                    /\ fresh' = [fresh EXCEPT ![dag_id] = FALSE]
  /\ UNCHANGED upstream

\* GET /api/acknowledge
acknowledge_get ==
  /\ Accepting
  /\ \E a \in QueryArgs :
       LET dag_id == a.dag_id
           task_id == DictGet(a.task_id, "unknown")
           r == Request("acknowledge_get", dag_id, task_id)
       IN  IF Falsy(dag_id)
             THEN Answered(r, 400, ErrorBody) /\ UNCHANGED fresh
             ELSE /\ set_airflow_variable(r, dag_id, AckValue)
                  /\ fresh' = [fresh EXCEPT ![dag_id] = FALSE]
  /\ UNCHANGED upstream

\* POST /api/acknowledge/reset/<dag_id>
reset_acknowledgment ==
  /\ Accepting
  /\ \E dag_id \in Dags :
       set_airflow_variable(Request("reset_acknowledgment", dag_id, None),
                            dag_id, ResetValue)
  /\ UNCHANGED <<upstream, fresh>>

\* `if response.status_code == 404` in the status handler
IsNotFound(status) == status = 404

\* GET /api/acknowledge/status/<dag_id>: requests.get(...), the 404 default,
\* raise_for_status(), response.json(), and the answer.
get_acknowledgment_status ==
  /\ Accepting
  /\ \E dag_id \in Dags :
       LET key == VarKey(dag_id)
       IN  \E o \in UpstreamCall("GET", key, <<>>) :
             LET called == [ Request("get_acknowledgment_status", dag_id, None) EXCEPT
                               !.key = key, !.calls = <<Call("GET", key, <<>>, o)>> ]
                 after == lastWrite[key]
                 failed == Done(called, 500, ErrorBody, FALSE, after)
             IN  /\ store' = o.store
                 /\ resp' = IF o.raised THEN failed
                            ELSE IF IsNotFound(o.status)
                              THEN Done(called, 200, NotFoundBody, FALSE, after)
                            ELSE IF RaiseForStatus(o.status) \/ ~o.json THEN failed
                            ELSE Done(called, 200, StatusBody(o.body), FALSE, after)
  /\ UNCHANGED <<upstream, inflight, fresh, lastWrite>>

HealthResponseProbing ==
  IF upstream = "up" THEN [http |-> 200, body |-> Body("healthy", FALSE, FALSE)]
                     ELSE [http |-> 500, body |-> ErrorBody]

\* The fixed answer of GET /health.
HealthResponse == [http |-> 200, body |-> Body("healthy", FALSE, FALSE)]

\* GET /health
health_check ==
  /\ Accepting
  /\ Answered(Request("health_check", None, None),
              HealthResponse.http, HealthResponse.body)
  /\ UNCHANGED <<upstream, fresh>>

\* ------------------------------------------------------ the environment
\* The response leaves the relay, which keeps nothing of the request.
Respond ==
  /\ resp # NoResp
  /\ resp' = NoResp
  /\ UNCHANGED <<store, upstream, inflight, fresh, lastWrite>>

Modes == {"up", "failing", "down"}

\* The upstream becomes reachable, failing or unreachable.
UpstreamChange ==
  /\ resp = NoResp
  /\ \E m \in Modes \ {upstream} : upstream' = m
  /\ UNCHANGED <<store, inflight, resp, fresh, lastWrite>>

\* --------------------------------------------------- the specification
Init ==
  /\ store \in [Keys -> {AbsentVar} \cup {PresentVar(v) : v \in InitValues}]
  /\ upstream \in Modes
  /\ inflight = EmptyBag
  /\ resp = NoResp
  /\ fresh = [d \in Dags |-> ~store[<<Prefix, d>>].present]
  /\ lastWrite = [k \in Keys |-> NoWrite]

Next ==
  \/ acknowledge_post
  \/ acknowledge_get
  \/ reset_acknowledgment
  \/ get_acknowledgment_status
  \/ health_check
  \/ \E r \in BagToSet(inflight) : set_airflow_variable_create(r)
  \/ Respond
  \/ UpstreamChange

Spec == Init /\ [][Next]_vars

\* =================================================== the properties
AckKinds == {"acknowledge_post", "acknowledge_get"}

WriteKinds == AckKinds \cup {"reset_acknowledgment"}

\* The key twilio_alert_enabled_{dag_id}, as the specification names it.
FlagKey(dag_id) == <<"twilio_alert_enabled_", dag_id>>

EnabledBody == Body("status", TRUE, FALSE)

AcknowledgedBody == Body("status", FALSE, TRUE)

IsStatus == resp.kind = "get_acknowledgment_status"

\* The request that just completed set or read a flag (it passed validation).
IsWrite == resp.kind \in WriteKinds /\ ~Falsy(resp.dag_id)

LastCall(d) == d.calls[Len(d.calls)]

\* The upstream read of the completed status request answered with the flag.
ReadSucceeded ==
  /\ IsStatus
  /\ ~resp.calls[1].raised /\ resp.calls[1].status = 200 /\ resp.calls[1].json

\* The upstream read of the completed status request answered not-found.
ReadNotFound ==
  IsStatus /\ ~resp.calls[1].raised /\ resp.calls[1].status = 404

\* C1: when the last write the store applied to a flag is that of an
\* acknowledge request which answered 200, a status request for the same dag
\* whose upstream read succeeds answers 200, alerts_enabled = false,
\* acknowledged = true (the flag having been absent or present before).
C1_AckThenStatus ==
  ReadSucceeded /\ resp.after.kind = "ack" /\ resp.after.http = 200
    => resp.http = 200 /\ resp.body = AcknowledgedBody

\* A status answered after an acknowledge that created dag a's flag, while
\* dag b's flag was last written by an acknowledge that updated it.
C1_Witness ==
  /\ ReadSucceeded /\ resp.dag_id = "a" /\ resp.body = AcknowledgedBody
  /\ resp.after = [kind |-> "ack", created |-> TRUE, http |-> 200, over_ack |-> FALSE]
  /\ lastWrite[FlagKey("b")].kind = "ack" /\ lastWrite[FlagKey("b")].http = 200
  /\ ~lastWrite[FlagKey("b")].created

\* C2 as stated: for a dag whose flag was absent at start and for which no
\* acknowledge request was made, every status request answers 200 with
\* alerts_enabled = true and acknowledged = false.
C2_Original ==
  IsStatus /\ fresh[resp.dag_id] => resp.http = 200 /\ resp.body = EnabledBody

\* C2 as amended: for such a dag, every status request whose upstream read
\* is answered (with the flag or with not-found) answers 200 with
\* alerts_enabled = true and acknowledged = false, also after resets; and
\* a not-found of the read is always answered with this default, never 500.
C2_NeverAcknowledged ==
  /\ (ReadSucceeded \/ ReadNotFound) /\ fresh[resp.dag_id]
       => resp.http = 200 /\ resp.body = EnabledBody
  /\ ReadNotFound => resp.http = 200 /\ resp.body = EnabledBody

\* A status of a never acknowledged dag, answered from a flag a reset created.
C2_Witness ==
  /\ ReadSucceeded /\ fresh[resp.dag_id] /\ resp.http = 200
  /\ resp.after.kind = "reset" /\ resp.after.created
  /\ \E x \in BagToSet(inflight) : x.dag_id # resp.dag_id

\* Every upstream write of a request carries the key of the request's dag,
\* and the value "false" for an acknowledge, "true" for a reset.
WritesOwnFlag(x) ==
  \A i \in DOMAIN x.calls :
    /\ x.calls[i].key = FlagKey(x.dag_id)
    /\ x.calls[i].value = IF x.kind = "reset_acknowledgment" THEN TrueStr ELSE FalseStr

\* C3 as stated: after an acknowledge that answered 200 and then a reset that
\* answered 200, with no later write, a status request answers
\* alerts_enabled = true, acknowledged = false.
C3_Original ==
  IsStatus /\ resp.after.kind = "reset" /\ resp.after.http = 200 /\ resp.after.over_ack
    => resp.http = 200 /\ resp.body = EnabledBody

\* C3 as amended: when the last write the store applied to a flag is that of
\* a reset which answered 200, a status request whose upstream read succeeds
\* answers 200, alerts_enabled = true, acknowledged = false; and a reset
\* writes "true" to the key an acknowledge of the same dag writes "false" to.
C3_ResetRestores ==
  /\ ReadSucceeded /\ resp.after.kind = "reset" /\ resp.after.http = 200
       => resp.http = 200 /\ resp.body = EnabledBody
  /\ resp.kind \in WriteKinds => WritesOwnFlag(resp)
  /\ \A x \in BagToSet(inflight) : WritesOwnFlag(x)

\* A status answered after a reset that replaced the write of an acknowledge.
C3_Witness ==
  /\ ReadSucceeded /\ resp.body = EnabledBody
  /\ resp.after = [kind |-> "reset", created |-> FALSE, http |-> 200, over_ack |-> TRUE]

\* C4: an acknowledge request without a dag_id is answered 400 with an error
\* body, and makes no upstream call.
C4_MissingDagIs400 ==
  resp.kind \in AckKinds /\ Falsy(resp.dag_id)
    => resp.http = 400 /\ resp.body = ErrorBody /\ resp.calls = <<>> /\ ~resp.applied

\* C5: a call of set_airflow_variable issues the update first; it issues the
\* create if and only if the update answered 404, once, with the same key
\* and value; nothing else follows.
C5_UpdateThenCreate ==
  /\ \A x \in BagToSet(inflight) :
       /\ Len(x.calls) = 1 /\ x.calls[1].method = "PATCH"
       /\ ~x.calls[1].raised /\ x.calls[1].status = 404
       /\ x.calls[1].key = x.key /\ x.calls[1].value = x.value
  /\ IsWrite =>
       LET c == resp.calls
       IN  /\ Len(c) \in {1, 2}
           /\ c[1].method = "PATCH" /\ c[1].key = resp.key /\ c[1].value = resp.value
           /\ Len(c) = 2 <=> (~c[1].raised /\ c[1].status = 404)
           /\ Len(c) = 2 =>
                c[2].method = "POST" /\ c[2].key = c[1].key /\ c[2].value = c[1].value

\* A write that found no variable and created it.
C5_Witness ==
  /\ IsWrite /\ Len(resp.calls) = 2 /\ resp.calls[2].status = 200
  /\ resp.http = 200 /\ resp.applied

\* The call failed: it raised, or answered a non-success status other than
\* the 404 of an update or a read.
FailedCall(c) ==
  \/ c.raised
  \/ c.status # 200 /\ ~(c.status = 404 /\ c.method \in {"PATCH", "GET"})

\* The last upstream call of request x failed.
DecidingCallFailed(x) == x.calls # <<>> /\ FailedCall(LastCall(x))

\* C6: when the deciding upstream call of an acknowledge, a reset or a status
\* fails, the handler answers 500 with an error body; no request stays
\* without its response after such a call.
C6_FailureIs500 ==
  /\ (IsWrite \/ IsStatus) /\ DecidingCallFailed(resp)
       => resp.http = 500 /\ resp.body = ErrorBody
  /\ \A x \in BagToSet(inflight) : ~DecidingCallFailed(x)
  /\ resp # NoResp => resp.http \in {200, 400, 500}

\* An acknowledge by link whose update answered 404 and whose create was refused.
C6_Witness ==
  /\ resp.kind = "acknowledge_get" /\ Len(resp.calls) = 2
  /\ resp.calls[2].status = 409 /\ resp.http = 500

\* The value is "true" in some letter case.
IsTrueAnyCase(v) ==
  /\ Len(v) = 4
  /\ v[1] \in {"t", "T"} /\ v[2] \in {"r", "R"}
  /\ v[3] \in {"u", "U"} /\ v[4] \in {"e", "E"}

\* C7: a status whose upstream read succeeds answers 200 with alerts_enabled
\* true exactly when the stored value is "true" in any letter case; in every
\* 200 status answer acknowledged is the negation of alerts_enabled.
C7_StatusReflectsFlag ==
  /\ ReadSucceeded =>
       /\ resp.http = 200 /\ resp.body.tag = "status"
       /\ resp.body.alerts_enabled <=> IsTrueAnyCase(store[FlagKey(resp.dag_id)].value)
  /\ IsStatus /\ resp.http = 200 =>
       resp.body.acknowledged = ~resp.body.alerts_enabled

\* A status that read a flag stored as "TruE".
C7_Witness ==
  /\ ReadSucceeded /\ resp.body = EnabledBody
  /\ store[FlagKey(resp.dag_id)].value = <<"T", "r", "u", "E">>

\* C8: GET /health answers 200 with status "healthy" whatever the store
\* holds and however the upstream answers, and makes no upstream call.
C8_HealthAlways200 ==
  resp.kind = "health_check"
    => /\ resp.http = 200 /\ resp.body = Body("healthy", FALSE, FALSE)
       /\ resp.calls = <<>> /\ ~resp.applied

\* A health check answered while the upstream is unreachable and a write is
\* between its two calls.
C8_Witness ==
  /\ resp.kind = "health_check" /\ resp.http = 200
  /\ upstream = "down" /\ inflight # EmptyBag

\* Every upstream call of a request names the key of its dag, and a
\* successful read returns the value stored under that key.
OwnKeyOnly ==
  /\ \A x \in BagToSet(inflight) \cup {resp} :
       \A i \in DOMAIN x.calls : x.calls[i].key = FlagKey(x.dag_id)
  /\ ReadSucceeded =>
       resp.calls[1].body = VarData(store[FlagKey(resp.dag_id)].value)

\* C9: a step changes the flag of a dag only if it is a step of a request
\* for that dag, which then completes; every upstream call of a request
\* names the key twilio_alert_enabled_{dag_id} of its own dag_id, whatever
\* its task_id.
C9_Independent ==
  [][ /\ \A k \in Keys :
           store'[k] # store[k] \/ lastWrite'[k] # lastWrite[k]
             => resp = NoResp /\ resp' # NoResp /\ resp'.dag_id = KeyDag(k)
      /\ OwnKeyOnly' ]_vars

\* An acknowledge of dag a with a task_id wrote its flag while a request of
\* dag b was between its two calls, dag b's flag still absent.
C9_Witness ==
  /\ resp.kind \in AckKinds /\ resp.dag_id = "a" /\ resp.task_id = "t1"
  /\ resp.applied /\ store[FlagKey("a")] = PresentVar(FalseStr)
  /\ \E x \in BagToSet(inflight) : x.dag_id = "b" /\ x.task_id = "unknown"
  /\ ~store[FlagKey("b")].present

\* C10 as stated: a write request that answers 500 has not changed the flag
\* and one that answers 200 has stored its value; once all requests have
\* completed, a flag that was written holds the value of a request that
\* answered 200.
C10_Original ==
  /\ IsWrite => (resp.http = 500 => ~resp.applied) /\ (resp.http = 200 => resp.applied)
  /\ inflight = EmptyBag /\ resp = NoResp
       => \A k \in Keys : lastWrite[k].kind # "none" => lastWrite[k].http = 200

\* C10 as amended: a write request that answers 200 has stored its value;
\* one that answers 500 because the upstream answered an error status has
\* not changed the flag (one whose call raised, or whose success was
\* answered with a body that is not JSON, may have); a flag that was written
\* holds the value of the last write the store applied.
C10_NoPartialFailure ==
  /\ IsWrite /\ resp.http = 200
       => resp.applied /\ store[FlagKey(resp.dag_id)] = PresentVar(resp.value)
  /\ IsWrite /\ resp.http = 500 /\ resp.calls # <<>>
       /\ ~LastCall(resp).raised /\ LastCall(resp).status >= 400
       => ~resp.applied
  /\ \A k \in Keys :
       /\ lastWrite[k].kind = "ack" => store[k] = PresentVar(FalseStr)
       /\ lastWrite[k].kind = "reset" => store[k] = PresentVar(TrueStr)

\* Two writers both found no variable; this one's create was refused after
\* the other's had stored its value.
C10_Witness ==
  /\ IsWrite /\ resp.http = 500 /\ ~resp.applied
  /\ Len(resp.calls) = 2 /\ resp.calls[2].status = 409
  /\ lastWrite[FlagKey(resp.dag_id)].created
  /\ lastWrite[FlagKey(resp.dag_id)].http = 200

====
